---------------------------- MODULE Spec2Model ----------------------------
(***************************************************************************)
(* ViajeIA backend (backend/app/main.py): the in-memory conversation and   *)
(* favorites stores, the field extractor, the four provider adapters, the  *)
(* panel composer and the text flow of the itinerary renderer.             *)
(*                                                                         *)
(* Conventions.  A Python str is a sequence of one-character strings.      *)
(* Optional[T] is a sequence of at most one element: None is <<>> and a    *)
(* present value v is <<v>>.  A decoded JSON value is a record [t, v]      *)
(* with t its Python type.  A handler is an async function without any     *)
(* await, so the event loop runs it to completion: one action each.        *)
(***************************************************************************)
EXTENDS Integers, Sequences, FiniteSets, TLC

VARIABLES
    conversation_store,  \* Dict[str, List[HistoryEntry]]           (line 78)
    favorites_store,     \* Dict[str, List[str]]                    (line 79)
    resp,                \* outcome of the last request handled
    appended,            \* history: entries appended per session key, in order
    clock,               \* value the next datetime.utcnow() returns
    ex,                  \* one call of extract_field: arguments, position, result
    pdf                  \* the text flow of download_itinerary         (480-498)

vars == <<conversation_store, favorites_store, resp, appended, clock, ex, pdf>>

None == <<>>
Some(v) == <<v>>

-----------------------------------------------------------------------------
(* Python str methods used by the code.                                    *)

\* str.strip() removes these (the model's texts hold no other whitespace).
Whitespace == {" ", "\t"}

RECURSIVE LStrip(_, _)
LStrip(s, chars) ==
    IF s # <<>> /\ Head(s) \in chars THEN LStrip(Tail(s), chars) ELSE s

RECURSIVE RStrip(_, _)
RStrip(s, chars) ==
    IF s # <<>> /\ s[Len(s)] \in chars
    THEN RStrip(SubSeq(s, 1, Len(s) - 1), chars)
    ELSE s

\* s.strip(): both ends, whitespace.
Strip(s) == RStrip(LStrip(s, Whitespace), Whitespace)

\* s.strip("."): both ends, the character ".".
StripDots(s) == RStrip(LStrip(s, {"."}), {"."})

\* Whether sub occurs in s at position i.
OccursAt(s, sub, i) ==
    /\ i >= 1
    /\ i + Len(sub) - 1 <= Len(s)
    /\ SubSeq(s, i, i + Len(sub) - 1) = sub

\* `sub in s`
Contains(s, sub) == \E i \in 1..(Len(s) + 1) : OccursAt(s, sub, i)

\* Position of the first occurrence of sub in s (sub occurs in s).
FirstIndex(s, sub) ==
    CHOOSE i \in 1..(Len(s) + 1) :
        /\ OccursAt(s, sub, i)
        /\ \A j \in 1..(i - 1) : ~OccursAt(s, sub, j)

\* s.split(sub, 1)[1]: what follows the first occurrence of sub.
AfterFirst(s, sub) == SubSeq(s, FirstIndex(s, sub) + Len(sub), Len(s))

\* s.split(sub, 1)[0]: what precedes the first occurrence, or all of s.
BeforeFirst(s, sub) ==
    IF Contains(s, sub) THEN SubSeq(s, 1, FirstIndex(s, sub) - 1) ELSE s

-----------------------------------------------------------------------------
(* Field Extractor.                                                        *)

\* The two labels the code extracts, "Destino deseado" and "Fechas
\* aproximadas", abbreviated to one character each so that the bounded
\* texts can hold their markers.
DestinoLabel == <<"D">>
FechasLabel == <<"F">>

\* The contract as stated: the segment loses its surrounding whitespace and
\* its trailing periods, and nothing else.
ClaimedExtract(text, label) ==
    LET marker == label \o <<":">>
    IN  IF ~Contains(text, marker) THEN None
        ELSE LET segmento == AfterFirst(text, marker)
                 posible == RStrip(LStrip(BeforeFirst(segmento, <<"|">>), Whitespace),
                                   Whitespace \cup {"."})
             IN  IF posible = <<>> THEN None ELSE Some(posible)

extract_field(text, label) ==
    LET marker == label \o <<":">>
    IN  IF ~Contains(text, marker) THEN None
        ELSE LET segmento == AfterFirst(text, marker)
                 posible == StripDots(Strip(BeforeFirst(segmento, <<"|">>)))
             IN  IF posible = <<>> THEN None ELSE Some(posible)

extract_destino(text) == extract_field(text, DestinoLabel)

-----------------------------------------------------------------------------
(* Decoded JSON and the Python operations the adapters apply to it.        *)

JNull == [t |-> "null", v |-> 0]
JNum(n) == [t |-> "num", v |-> n]
JStr(s) == [t |-> "str", v |-> s]
JList(l) == [t |-> "list", v |-> l]
JDict(d) == [t |-> "dict", v |-> d]
EmptyDict == JDict([k \in {} |-> JNull])

\* bool(x)
Truthy(x) ==
    CASE x.t = "null" -> FALSE
      [] x.t = "num"  -> x.v # 0
      [] x.t = "str"  -> x.v # <<>>
      [] x.t = "list" -> x.v # <<>>
      [] x.t = "dict" -> DOMAIN x.v # {}

\* d.get(key, default), d a dict
DictGet(d, key, default) == IF key \in DOMAIN d.v THEN d.v[key] ELSE default

\* An adapter or a composer either returns a value or lets an exception
\* escape to its caller.
Ret(x) == [raised |-> FALSE, v |-> x]
Raised == [raised |-> TRUE, v |-> <<>>]

\* str.upper() and str.capitalize() on the letters the model's payloads use.
LowerLetters == <<"e", "u", "r", "s", "d", "o", "l">>
UpperLetters == <<"E", "U", "R", "S", "D", "O", "L">>
Upper(c) ==
    IF \E i \in 1..Len(LowerLetters) : LowerLetters[i] = c
    THEN UpperLetters[CHOOSE i \in 1..Len(LowerLetters) : LowerLetters[i] = c]
    ELSE c
Lower(c) ==
    IF \E i \in 1..Len(UpperLetters) : UpperLetters[i] = c
    THEN LowerLetters[CHOOSE i \in 1..Len(UpperLetters) : UpperLetters[i] = c]
    ELSE c
Capitalize(s) == [i \in 1..Len(s) |-> IF i = 1 THEN Upper(s[i]) ELSE Lower(s[i])]

-----------------------------------------------------------------------------
(* Provider Adapters.  http is the outcome of the adapter's one outbound   *)
(* call: [kind, body], kind one of                                         *)
(*   "conn_error", "timeout"  requests.get raises (a RequestException)     *)
(*   "http_error"             raise_for_status raises HTTPError            *)
(*   "bad_json"               response.json() cannot parse the body        *)
(*   "ok"                     body is the decoded JSON                     *)
(* requests raises its own JSONDecodeError, a RequestException, for a body  *)
(* it cannot parse (requests 2.27 and later).                              *)

\* The try/except around get, raise_for_status and json(): "data" when the
\* body was decoded, "absent" when the except clause returned.
Fetch(env, http) == IF http.kind = "ok" THEN "data" ELSE "absent"

\* Lines 115-126 on a decoded body.
WeatherSnapshot(data, destino) ==
    IF data.t # "dict" THEN Raised                                \* data.get
    ELSE LET w == DictGet(data, "weather", JList(<<EmptyDict>>))
             main == DictGet(data, "main", EmptyDict)
             wind == DictGet(data, "wind", EmptyDict)
             sys == DictGet(data, "sys", EmptyDict)
         IN  IF w.t \notin {"list", "str"} \/ w.v = <<>> THEN Raised    \* [0]
             ELSE IF w.t = "str" \/ w.v[1].t # "dict" THEN Raised \* weather.get
             ELSE IF main.t # "dict" THEN Raised
             ELSE IF DictGet(w.v[1], "description", JStr(<<>>)).t # "str"
                  THEN Raised                                     \* capitalize
             ELSE IF wind.t # "dict" \/ sys.t # "dict" THEN Raised
             ELSE Ret(Some(
                [summary |-> JStr(Capitalize(
                                DictGet(w.v[1], "description", JStr(<<>>)).v)),
                 temperature |-> DictGet(main, "temp", JNull),
                 feels_like |-> DictGet(main, "feels_like", JNull),
                 humidity |-> DictGet(main, "humidity", JNull),
                 wind |-> DictGet(wind, "speed", JNull),
                 country |-> DictGet(sys, "country", JNull),
                 timezone_offset |-> DictGet(data, "timezone", JNull),
                 city |-> IF Truthy(DictGet(data, "name", JNull))
                          THEN DictGet(data, "name", JNull)
                          ELSE JStr(destino)]))

\* Line 97: the call is made with a credential and a destination.
WeatherCallMade(env, destino) ==
    env.weather_key /\ destino # None /\ destino # Some(<<>>)

get_weather_data(env, destino, http) ==
    IF ~WeatherCallMade(env, destino) THEN Ret(None)
    ELSE CASE Fetch(env, http) = "absent" -> Ret(None)
           [] OTHER -> WeatherSnapshot(http.body, destino[1])

\* item.get("urls", {}).get("regular") for one element of results
PhotoItemRaises(item) ==
    \/ item.t # "dict"
    \/ DictGet(item, "urls", EmptyDict).t # "dict"

PhotoItemUrl(item) == DictGet(DictGet(item, "urls", EmptyDict), "regular", JNull)

RECURSIVE CollectUrls(_)
CollectUrls(items) ==
    IF items = <<>> THEN <<>>
    ELSE (IF Truthy(PhotoItemUrl(Head(items)))
          THEN <<PhotoItemUrl(Head(items))>> ELSE <<>>)
         \o CollectUrls(Tail(items))

\* Lines 152-158 on a decoded body.
PhotoUrls(data) ==
    IF data.t # "dict" THEN Raised                                \* data.get
    ELSE LET results == DictGet(data, "results", JList(<<>>))
         IN  CASE results.t \in {"null", "num"} -> Raised         \* for ... in
               [] results.t = "str" ->
                     IF results.v = <<>> THEN Ret(<<>>) ELSE Raised
               [] results.t = "dict" ->
                     IF DOMAIN results.v = {} THEN Ret(<<>>) ELSE Raised
               [] OTHER ->
                     IF \E i \in 1..Len(results.v) : PhotoItemRaises(results.v[i])
                     THEN Raised
                     ELSE Ret(CollectUrls(results.v))

\* Line 131.
PhotoCallMade(env, destino) ==
    env.photo_key /\ destino # None /\ destino # Some(<<>>)

get_destination_photos(env, destino, http) ==
    IF ~PhotoCallMade(env, destino) THEN Ret(<<>>)
    ELSE CASE Fetch(env, http) = "absent" -> Ret(<<>>)
           [] OTHER -> PhotoUrls(http.body)

\* Lines 175-180 on a decoded body.  next(iter(currencies.keys())) is the
\* first key; the model's currency mappings hold one key.
CurrencyOf(data) ==
    IF ~Truthy(data) THEN Ret(None)
    ELSE IF data.t # "list" THEN Raised                           \* data[0]
    ELSE IF data.v[1].t # "dict" THEN Raised                      \* .get
    ELSE LET currencies == DictGet(data.v[1], "currencies", JNull)
         IN  IF ~Truthy(currencies) THEN Ret(None)
             ELSE IF currencies.t # "dict" THEN Raised            \* .keys()
             ELSE Ret(Some(CHOOSE k \in DOMAIN currencies.v : TRUE))

\* Line 162.  country_code is the snapshot's "country" (any JSON value) or
\* None.
CurrencyCallMade(country_code) ==
    country_code # None /\ Truthy(country_code[1])

get_currency_code(env, country_code, http) ==
    IF ~CurrencyCallMade(country_code) THEN Ret(None)
    ELSE CASE Fetch(env, http) = "absent" -> Ret(None)
           [] OTHER -> CurrencyOf(http.body)

\* Lines 204-212 on a decoded body.
RateSection(data, base_currency, target_currency) ==
    IF data.t # "dict" THEN Raised
    ELSE LET rates == DictGet(data, "rates", EmptyDict)
         IN  IF rates.t # "dict" THEN Raised
             ELSE LET rate == DictGet(rates, target_currency, JNull)
                  IN  IF rate.t = "null" THEN Ret(None)
                      ELSE IF rate.t # "num" THEN Raised          \* {rate:,.2f}
                      ELSE Ret(Some(
                          [label |-> "Tipo de cambio",
                           value |-> [kind |-> "rate", base |-> base_currency,
                                      rate |-> rate.v, target |-> target_currency],
                           description |-> Some("open.er-api.com")]))

\* str.upper() of a currency code.  Codes are mapping keys, kept as TLA+
\* strings: the codes the model's payloads and environments use.
UpperCode(code) ==
    CASE code = "usd" -> "USD"
      [] code = "eur" -> "EUR"
      [] OTHER -> code

\* Lines 184-188.  target_currency is None or a key of the currencies
\* mapping.
RateCallMade(env, target_currency) ==
    /\ target_currency # None
    /\ target_currency # Some("")
    /\ UpperCode(env.home_currency) # UpperCode(target_currency[1])

get_exchange_rate(env, target_currency, http) ==
    IF target_currency = None \/ target_currency = Some("") THEN Ret(None)
    ELSE LET base_currency == UpperCode(env.home_currency)
             target == UpperCode(target_currency[1])
         IN  IF ~RateCallMade(env, target_currency)
             THEN Ret(Some([label |-> "Tipo de cambio",
                            value |-> [kind |-> "home", base |-> base_currency],
                            description |-> Some("coincide")]))
             ELSE CASE Fetch(env, http) = "absent" -> Ret(None)
                    [] OTHER -> RateSection(http.body, base_currency, target)

-----------------------------------------------------------------------------
(* Panel Composer.                                                         *)

\* datetime.now(home_tz).utcoffset() in seconds, by HOME_TIMEZONE; a name
\* ZoneInfo rejects falls back to UTC (lines 220-224).
HomeOffset(home_timezone) ==
    CASE home_timezone = "America/Bogota" -> -18000
      [] home_timezone = "Asia/Kolkata" -> 19800
      [] OTHER -> 0

SecondsPerDay == 86400
Abs(n) == IF n < 0 THEN -n ELSE n

\* f"{x:.1f}" of x = seconds / 3600, in tenths of an hour.
Tenths(seconds) == (seconds + 180) \div 360

\* offset_seconds is the snapshot's "timezone_offset", JNull for None.
get_time_difference_info(env, offset_seconds) ==
    IF offset_seconds.t = "null" THEN Ret(None)
    ELSE IF offset_seconds.t # "num" THEN Raised                  \* timedelta
    ELSE IF Abs(offset_seconds.v) >= SecondsPerDay THEN Raised    \* timezone
    ELSE LET diff == offset_seconds.v - HomeOffset(env.home_timezone)
         IN  Ret(Some([label |-> "Diferencia horaria",
                       value |-> [kind |-> "hours",
                                  sign |-> IF diff >= 0 THEN "+" ELSE "-",
                                  tenths |-> Tenths(Abs(diff))],
                       description |-> Some("Destino / tu zona")]))

\* A placeholder section also when there is no snapshot.
format_weather_section_always(weather_data) ==
    Ret(Some([label |-> "Temperatura actual",
              value |-> [kind |-> "N/D", v |-> 0],
              description |-> None]))

\* A section for every snapshot, whatever it holds.
format_weather_section(weather_data) ==
    IF weather_data = None THEN Ret(None)
    ELSE LET w == weather_data[1]
             temp == w.temperature
             summary == w.summary
             feels == w.feels_like
         IN  IF temp.t \notin {"null", "num"} THEN Raised         \* {temp:.0f}
             ELSE IF feels.t \notin {"null", "num"} THEN Raised   \* {feels:.0f}
             ELSE Ret(Some(
                [label |-> "Temperatura actual",
                 value |-> IF temp.t # "null" THEN [kind |-> "celsius", v |-> temp.v]
                           ELSE IF Truthy(summary)
                                THEN [kind |-> "summary", v |-> summary.v]
                                ELSE [kind |-> "N/D", v |-> 0],
                 description |->
                    LET parts == (IF Truthy(summary) THEN <<"summary">> ELSE <<>>)
                              \o (IF feels.t # "null" THEN <<"Sensacion">> ELSE <<>>)
                              \o (IF w.humidity.t # "null" THEN <<"Humedad">> ELSE <<>>)
                    IN  IF parts = <<>> THEN None ELSE Some(parts)]))

-----------------------------------------------------------------------------
(* Conversation Store and Favorites Store: dicts keyed by session id.      *)

EmptyStore == [k \in {} |-> <<>>]

\* store.get(key, default)
StoreGet(store, key, default) == IF key \in DOMAIN store THEN store[key] ELSE default

\* store[key] = value
StorePut(store, key, value) ==
    [k \in DOMAIN store \cup {key} |-> IF k = key THEN value ELSE store[k]]

HistoryLimit == 10

\* l[-n:]
LastN(l, n) == IF Len(l) <= n THEN l ELSE SubSeq(l, Len(l) - n + 1, Len(l))

\* updated_history[:10]: the first entries kept, not the last.
TruncateHistoryFirst(updated_history) ==
    SubSeq(updated_history, 1,
           IF Len(updated_history) < HistoryLimit THEN Len(updated_history)
           ELSE HistoryLimit)

\* updated_history[-10:]
TruncateHistory(updated_history) == LastN(updated_history, HistoryLimit)

Anon == <<"a", "n", "o", "n">>

\* payload.session_id or "anon"
PlanSessionKey(payload) ==
    IF payload.session_id = None \/ payload.session_id = Some(<<>>)
    THEN Anon
    ELSE payload.session_id[1]

\* The history read under one key for every session.
PlanHistoryShared(store, payload) == StoreGet(store, Anon, <<>>)

\* conversation_store.get(session_id, [])
PlanHistory(store, payload) == StoreGet(store, PlanSessionKey(payload), <<>>)

\* Shown when the model's text is empty after strip() (line 385).
RespuestaFallback == <<"?">>

\* Status of the HTTPException of _get_gemini_model, and of the server's
\* answer to an exception no handler catches.
ServerErrorStatus == 500
\* The language model's failure answered like a missing credential.
LlmErrorAsServerError == ServerErrorStatus
\* Status of an HTTPException raised when generate_content raises.
LlmErrorStatus == 502

NoPanel == [currency |-> None, time |-> None, weather |-> None]
NotCalled == [invoked |-> FALSE, outbound |-> FALSE, http |-> "", result |-> Ret(None)]
Call(outbound, http, result) ==
    [invoked |-> TRUE, outbound |-> outbound,
     http |-> IF outbound THEN http.kind ELSE "", result |-> result]
NoTrace == [weather |-> NotCalled, photos |-> NotCalled,
            currency |-> NotCalled, rate |-> NotCalled]

\* A request that ends in an error response.
PlanFailure(key, status, unhandled, llm_called, trace) ==
    [status |-> status, unhandled |-> unhandled, key |-> key,
     llm_called |-> llm_called, stored |-> FALSE, entry |-> None,
     respuesta |-> <<>>,
     fotos |-> <<>>, panel |-> NoPanel, history |-> <<>>, favorites |-> <<>>,
     weather_data |-> None, timezone_offset |-> JNull, currency_code |-> None,
     trace |-> trace]

\* Lines 316-318: the destination of the question, else of the last entry.
PlanDestino(store, payload) ==
    LET history_entries == PlanHistory(store, payload)
        destino == extract_destino(payload.pregunta)
    IN  IF destino = None /\ history_entries # <<>>
        THEN history_entries[Len(history_entries)].destino
        ELSE destino

\* Line 323: weather_data.get("country") if weather_data else None
PlanCountry(weather) ==
    IF weather.v # None THEN Some(weather.v[1].country) ELSE None

\* plan_trip on the stores as they are: what it answers and the history it
\* stores.  io holds the outcome of each outbound call and of the language
\* model; now is datetime.utcnow().
plan_trip(store, favorites, payload, env, io, now) ==
    LET session_id == PlanSessionKey(payload)
        history_entries == PlanHistory(store, payload)
        destino == PlanDestino(store, payload)
        weather == get_weather_data(env, destino, io.wx)
        fotos == get_destination_photos(env, destino, io.ph)
        country_code == PlanCountry(weather)
        currency_code == get_currency_code(env, country_code, io.cc)
        currency_section == get_exchange_rate(env, currency_code.v, io.fx)
        timezone_offset == IF weather.v # None THEN weather.v[1].timezone_offset
                           ELSE JNull
        time_section == get_time_difference_info(env, timezone_offset)
        weather_section == format_weather_section(weather.v)
        tw == [NoTrace EXCEPT !.weather =
                   Call(WeatherCallMade(env, destino), io.wx, weather)]
        tp == [tw EXCEPT !.photos =
                   Call(PhotoCallMade(env, destino), io.ph, fotos)]
        tc == [tp EXCEPT !.currency =
                   Call(CurrencyCallMade(country_code), io.cc, currency_code)]
        tr == [tc EXCEPT !.rate =
                   Call(RateCallMade(env, currency_code.v), io.fx, currency_section)]
        stripped == Strip(io.llm.text)
        respuesta == IF stripped = <<>> THEN RespuestaFallback ELSE stripped
        entry == [pregunta |-> payload.pregunta, respuesta |-> respuesta,
                  destino |-> destino, timestamp |-> now]
        updated_history == Append(history_entries, entry)
    IN  IF ~env.gemini_key
        THEN PlanFailure(session_id, ServerErrorStatus, FALSE, FALSE, NoTrace)
        ELSE IF weather.raised
        THEN PlanFailure(session_id, ServerErrorStatus, TRUE, FALSE, tw)
        ELSE IF fotos.raised
        THEN PlanFailure(session_id, ServerErrorStatus, TRUE, FALSE, tp)
        ELSE IF currency_code.raised
        THEN PlanFailure(session_id, ServerErrorStatus, TRUE, FALSE, tc)
        ELSE IF currency_section.raised
        THEN PlanFailure(session_id, ServerErrorStatus, TRUE, FALSE, tr)
        ELSE IF time_section.raised \/ weather_section.raised
        THEN PlanFailure(session_id, ServerErrorStatus, TRUE, FALSE, tr)
        ELSE IF io.llm.kind = "raise"
        THEN PlanFailure(session_id, LlmErrorStatus, FALSE, TRUE, tr)
        ELSE [status |-> 200, unhandled |-> FALSE, key |-> session_id,
              llm_called |-> TRUE, stored |-> TRUE, entry |-> Some(entry),
              respuesta |-> respuesta,
              fotos |-> fotos.v,
              panel |-> [currency |-> currency_section.v,
                         time |-> time_section.v,
                         weather |-> weather_section.v],
              history |-> TruncateHistory(updated_history),
              favorites |-> StoreGet(favorites, session_id, <<>>),
              weather_data |-> weather.v, timezone_offset |-> timezone_offset,
              currency_code |-> currency_code.v,
              trace |-> tr]

\* destino in favorites
InList(l, x) == \E i \in 1..Len(l) : l[i] = x

\* favorites.append(destino) without the membership test.
AddAlways(favorites, destino) == Append(favorites, destino)

\* favorites after `if destino not in favorites: favorites.append(destino)`
AddIfAbsent(favorites, destino) ==
    IF InList(favorites, destino) THEN favorites ELSE Append(favorites, destino)

BadRequestStatus == 400

\* save_favorite: its answer and the list it leaves under the session's key.
save_favorite(favorites_by_session, payload) ==
    LET session_id == Strip(payload.session_id)
        destino == Strip(payload.destino)
        favorites == StoreGet(favorites_by_session, session_id, <<>>)
    IN  IF session_id = <<>> \/ destino = <<>>
        THEN [status |-> BadRequestStatus, key |-> session_id, destino |-> destino,
              stored |-> FALSE, favorites |-> <<>>]
        ELSE [status |-> 200, key |-> session_id, destino |-> destino,
              stored |-> TRUE, favorites |-> AddIfAbsent(favorites, destino)]

\* list_favorites
list_favorites(favorites_by_session, session_id) ==
    [status |-> 200, key |-> session_id,
     favorites |-> StoreGet(favorites_by_session, session_id, <<>>)]

-----------------------------------------------------------------------------
(* Itinerary Renderer.  Lengths are in tenths of a point.                  *)

\* text.split(): the lengths of the whitespace-separated words of a text.
RECURSIVE SplitLens(_, _)
SplitLens(s, cur) ==
    IF s = <<>> THEN (IF cur > 0 THEN <<cur>> ELSE <<>>)
    ELSE IF Head(s) \in Whitespace
         THEN (IF cur > 0 THEN <<cur>> ELSE <<>>) \o SplitLens(Tail(s), 0)
         ELSE SplitLens(Tail(s), cur + 1)

WordLens(text) == SplitLens(text, 0)

WrapWidth == 90

\* The loop of wrap_text over the words (their lengths); a line is the list
\* of its words.
RECURSIVE WrapLoop(_, _, _, _, _)
WrapLoop(words, lines, current, current_len, width) ==
    IF words = <<>>
    THEN (IF current # <<>> THEN Append(lines, current) ELSE lines)
    ELSE LET word == Head(words)
         IN  IF current_len + word + (IF current # <<>> THEN 1 ELSE 0) > width
             THEN WrapLoop(Tail(words), Append(lines, current), <<word>>, word, width)
             ELSE WrapLoop(Tail(words), lines, Append(current, word),
                           current_len + word + (IF current_len # 0 THEN 1 ELSE 0),
                           width)

\* wrap_text(text): `lines or [text]` is one line when there are no words.
wrap_text(words) ==
    LET lines == WrapLoop(words, <<>>, <<>>, 0, WrapWidth)
    IN  IF lines = <<>> THEN <<words>> ELSE lines

PageHeight == 792
FontSize == 11
BottomMargin == 80
\* The text object's leading is 1.2 times the font size.
Leading == (FontSize * 12)
\* y of the text flow on the first page (lines 469-480) and on a
\* continuation page (lines 492-496).
FirstPageY == (PageHeight - 120 - 20 - 30 - 16) * 10
ContinuationY == (PageHeight - 120 - 16) * 10

\* n calls of text.textLine: each shows a line at the cursor, on the current
\* page, and moves the cursor down by the leading.
RECURSIVE TextLines(_, _)
TextLines(flow, n) ==
    IF n = 0 THEN flow
    ELSE TextLines([flow EXCEPT !.lines = Append(@, [page |-> flow.page, y |-> flow.y]),
                                !.y = @ - Leading],
                   n - 1)

\* The body of `for entry in history` (lines 483-497) for one entry, whose
\* answer is given by its words.
FlowEntry(flow, words) ==
    LET n == 1 + (IF words # <<>> THEN Len(wrap_text(words)) ELSE 0) + 1
        after == TextLines(flow, n)
    IN  IF after.y < BottomMargin * 10
        THEN [after EXCEPT !.page = @ + 1, !.y = ContinuationY]
        ELSE after

\* Lines 480-498: the text flow over the answers of a history.
RECURSIVE FlowLoop(_, _)
FlowLoop(flow, answers) ==
    IF answers = <<>> THEN flow
    ELSE FlowLoop(FlowEntry(flow, Head(answers)), Tail(answers))

TextFlow(answers) == FlowLoop([page |-> 1, y |-> FirstPageY, lines |-> <<>>], answers)

NotFoundStatus == 404
DestinoDefault == <<"-">>

\* download_itinerary: status, and for a document its pages and text lines.
download_itinerary(store, session_id, env, ph) ==
    LET history == StoreGet(store, session_id, <<>>)
        latest == history[Len(history)]
        extracted == extract_destino(latest.pregunta)
        destino == IF latest.destino # None /\ latest.destino # Some(<<>>)
                   THEN latest.destino
                   ELSE IF extracted # None THEN extracted
                   ELSE Some(DestinoDefault)
        photos == get_destination_photos(env, destino, ph)
        flow == TextFlow([i \in 1..Len(history) |-> WordLens(history[i].respuesta)])
    IN  IF history = <<>>
        THEN [status |-> NotFoundStatus, unhandled |-> FALSE, key |-> session_id,
              document |-> FALSE, pages |-> 0, lines |-> <<>>]
        ELSE IF photos.raised
        THEN [status |-> ServerErrorStatus, unhandled |-> TRUE, key |-> session_id,
              document |-> FALSE, pages |-> 0, lines |-> <<>>]
        ELSE [status |-> 200, unhandled |-> FALSE, key |-> session_id,
              document |-> TRUE,
              pages |-> flow.page + (IF photos.v # <<>> THEN 1 ELSE 0),
              lines |-> flow.lines]

-----------------------------------------------------------------------------
(* Requests: the inputs the actions draw from.                             *)

Failed(kind) == [kind |-> kind, body |-> JNull]
Ok(body) == [kind |-> "ok", body |-> body]
FailureKinds == {"conn_error", "timeout", "http_error", "bad_json"}
Failures == <<Failed("conn_error"), Failed("timeout"), Failed("http_error"),
              Failed("bad_json")>>

\* The outcomes of one call: each failure, and an answer with each body.
\* (Sequences: decoded bodies of different types are never compared.)
Outcomes(bodies) == Failures \o [i \in 1..Len(bodies) |-> Ok(bodies[i])]

Rec1(k, v) == JDict([x \in {k} |-> v])

WeatherFull ==
    JDict([x \in {"weather", "main", "wind", "sys", "timezone", "name"} |->
        CASE x = "weather" -> JList(<<Rec1("description", JStr(<<"s", "o", "l">>))>>)
          [] x = "main" -> JDict([y \in {"temp", "feels_like", "humidity"} |->
                                    CASE y = "temp" -> JNum(21)
                                      [] y = "feels_like" -> JNum(20)
                                      [] OTHER -> JNum(40)])
          [] x = "wind" -> Rec1("speed", JNum(3))
          [] x = "sys" -> Rec1("country", JStr(<<"F", "R">>))
          [] x = "timezone" -> JNum(3600)
          [] OTHER -> JStr(<<"P">>)])

\* Only a description, a country and an offset.
WeatherSummaryOnly ==
    JDict([x \in {"weather", "sys", "timezone"} |->
        CASE x = "weather" -> JList(<<Rec1("description", JStr(<<"s", "o", "l">>))>>)
          [] x = "sys" -> Rec1("country", JStr(<<"U", "S">>))
          [] OTHER -> JNum(-18000)])

WeatherBodies ==
    << WeatherFull, WeatherSummaryOnly,
      EmptyDict,                                \* no field at all
      Rec1("weather", JList(<<>>)),             \* an empty weather list
      Rec1("main", JNull),
      Rec1("timezone", JStr(<<"x">>)),
      Rec1("main", Rec1("temp", JStr(<<"2", "1">>))),
      JList(<<>>) >>                             \* not an object

PhotoItem(url) == Rec1("urls", Rec1("regular", JStr(url)))
Url1 == <<"u", "1">>
Url2 == <<"u", "2">>
Url3 == <<"u", "3">>
Url4 == <<"u", "4">>

PhotoBodies ==
    << Rec1("results", JList(<<PhotoItem(Url1), PhotoItem(Url2), PhotoItem(Url3)>>)),
      Rec1("results", JList(<<PhotoItem(Url1), PhotoItem(Url2), PhotoItem(Url3),
                              PhotoItem(Url4)>>)),
      Rec1("results", JList(<<Rec1("urls", EmptyDict), PhotoItem(Url1)>>)),
      Rec1("results", JList(<<>>)),
      EmptyDict,
      Rec1("results", JList(<<JStr(<<"x">>)>>)),
      Rec1("results", JNull),
      JList(<<>>) >>

CurrencyBodies ==
    << JList(<<Rec1("currencies", Rec1("EUR", EmptyDict))>>),
      JList(<<Rec1("currencies", Rec1("usd", EmptyDict))>>),
      JList(<<>>),
      JList(<<EmptyDict>>),
      Rec1("status", JNum(404)),
      JList(<<JStr(<<"x">>)>>) >>

RateBodies ==
    << Rec1("rates", Rec1("EUR", JNum(2))),
      EmptyDict,
      Rec1("rates", Rec1("EUR", JStr(<<"0", ".", "9">>))),
      JList(<<>>) >>

LlmText(text) == [kind |-> "text", text |-> text]
LlmRaises == [kind |-> "raise", text |-> <<>>]
LlmOutcomes == {LlmText(<<"o", "k">>), LlmText(<<" ">>), LlmRaises}

EnvAll == [gemini_key |-> TRUE, weather_key |-> TRUE, photo_key |-> TRUE,
           home_currency |-> "usd", home_timezone |-> "UTC"]
EnvNoGemini == [EnvAll EXCEPT !.gemini_key = FALSE]
EnvNoProviders == [EnvAll EXCEPT !.weather_key = FALSE, !.photo_key = FALSE]
EnvAbroad == [EnvAll EXCEPT !.home_currency = "eur",
                            !.home_timezone = "America/Bogota"]

PreguntaDestino == <<"D", ":", "P">>
PreguntaLibre == <<"h", "i">>

SessionS == <<"s">>

-----------------------------------------------------------------------------
(* Actions: one per handler.                                               *)

NoResp == [op |-> "none", req |-> <<>>, out |-> <<>>]

Init ==
    /\ conversation_store = EmptyStore
    /\ favorites_store = EmptyStore
    /\ resp = NoResp
    /\ appended = EmptyStore
    /\ clock = 0
    /\ ex = [pc |-> "idle", text |-> <<>>, label |-> <<>>, result |-> None]
    /\ pdf = [pc |-> "idle", answers |-> <<>>, pages |-> 0, lines |-> <<>>]

\* POST /plan.  limit bounds the entries ever stored.
PlanTrip(payload, env, io, limit) ==
    /\ clock < limit
    /\ LET out == plan_trip(conversation_store, favorites_store, payload, env, io, clock)
       IN  /\ resp' = [op |-> "plan",
                       req |-> [payload |-> payload, env |-> env, io |-> io],
                       out |-> out]
           /\ IF out.stored
              THEN /\ conversation_store' =
                        StorePut(conversation_store, out.key, out.history)
                   /\ appended' =
                        StorePut(appended, out.key,
                                 Append(StoreGet(appended, out.key, <<>>),
                                        out.entry[1]))
                   /\ clock' = clock + 1
              ELSE UNCHANGED <<conversation_store, appended, clock>>
    /\ UNCHANGED <<favorites_store, ex, pdf>>

\* POST /favorites
SaveFavorite(payload) ==
    /\ LET out == save_favorite(favorites_store, payload)
       IN  /\ resp' = [op |-> "save_favorite", req |-> payload, out |-> out]
           /\ favorites_store' =
                IF out.stored THEN StorePut(favorites_store, out.key, out.favorites)
                ELSE favorites_store
    /\ UNCHANGED <<conversation_store, appended, clock, ex, pdf>>

\* GET /favorites
ListFavorites(session_id) ==
    /\ resp' = [op |-> "list_favorites", req |-> session_id,
                out |-> list_favorites(favorites_store, session_id)]
    /\ UNCHANGED <<conversation_store, favorites_store, appended, clock, ex, pdf>>

\* GET /itinerary/pdf
DownloadItinerary(session_id, env, ph) ==
    /\ resp' = [op |-> "download_itinerary",
                req |-> [session_id |-> session_id, env |-> env, ph |-> ph],
                out |-> download_itinerary(conversation_store, session_id, env, ph)]
    /\ UNCHANGED <<conversation_store, favorites_store, appended, clock, ex, pdf>>

\* The server: every handler, a few sessions, providers up, down or
\* answering with a body of the wrong shape.
MaxRequests == 2

PlanPayloads ==
    [pregunta : {PreguntaDestino, PreguntaLibre}, session_id : {None, Some(SessionS)}]

IoDown == [wx |-> Failed("timeout"), ph |-> Failed("conn_error"),
           cc |-> Failed("http_error"), fx |-> Failed("timeout")]
IoWrongShape == [IoDown EXCEPT !.ph = Ok(JList(<<>>))]

FavoritePayloads ==
    [session_id : {SessionS, <<" ", "s">>, Anon}, destino : {<<"P">>, <<>>}]

Next ==
    \/ \E payload \in PlanPayloads, env \in {EnvAll, EnvNoGemini},
          io \in {"down", "wrong shape"}, llm \in {LlmText(<<"o", "k">>), LlmRaises} :
          PlanTrip(payload, env,
                   [wx |-> IoDown.wx,
                    ph |-> IF io = "down" THEN IoDown.ph ELSE IoWrongShape.ph,
                    cc |-> IoDown.cc, fx |-> IoDown.fx, llm |-> llm],
                   MaxRequests)
    \/ \E payload \in FavoritePayloads : SaveFavorite(payload)
    \/ \E session_id \in {SessionS, Anon} : ListFavorites(session_id)
    \/ \E session_id \in {SessionS, Anon}, io \in {"down", "wrong shape"} :
          DownloadItinerary(session_id, EnvAll,
                            IF io = "down" THEN IoDown.ph ELSE IoWrongShape.ph)

Spec == Init /\ [][Next]_vars

-----------------------------------------------------------------------------
(* One session's history past the limit: POST /plan alone, two sessions.   *)

MaxAppends == 12

NextHistory ==
    \E session_id \in {None, Some(SessionS)}, llm \in {LlmText(<<"o", "k">>), LlmRaises} :
        PlanTrip([pregunta |-> PreguntaDestino, session_id |-> session_id],
                 EnvNoProviders,
                 [wx |-> IoDown.wx, ph |-> IoDown.ph, cc |-> IoDown.cc,
                  fx |-> IoDown.fx, llm |-> llm],
                 MaxAppends)

SpecHistory == Init /\ [][NextHistory]_vars

-----------------------------------------------------------------------------
(* The favorites store alone: POST and GET /favorites.                     *)

FavoriteDestinos == {<<"P">>, <<" ", "P", " ">>, <<"R">>, <<"p">>, <<" ">>, <<>>}

NextFavorites ==
    \/ \E session_id \in {SessionS, <<"s", "\t">>, Anon, <<" ">>},
          destino \in FavoriteDestinos :
          SaveFavorite([session_id |-> session_id, destino |-> destino])
    \/ \E session_id \in {SessionS, Anon} : ListFavorites(session_id)

SpecFavorites == Init /\ [][NextFavorites]_vars

-----------------------------------------------------------------------------
(* One POST /plan over every outcome of the four outbound calls, on an     *)
(* empty store and on a store that already holds a destination.            *)

EarlierEntry == [pregunta |-> PreguntaDestino, respuesta |-> <<"o", "k">>,
                 destino |-> Some(<<"P">>), timestamp |-> 0]
EarlierStore == [k \in {Anon} |-> <<EarlierEntry>>]

InitPanel ==
    /\ conversation_store \in {EmptyStore, EarlierStore}
    /\ appended = conversation_store
    /\ clock = IF conversation_store = EmptyStore THEN 0 ELSE 1
    /\ favorites_store = EmptyStore
    /\ resp = NoResp
    /\ ex = [pc |-> "idle", text |-> <<>>, label |-> <<>>, result |-> None]
    /\ pdf = [pc |-> "idle", answers |-> <<>>, pages |-> 0, lines |-> <<>>]

\* The outcome of a call that is not made is not drawn.
DrawnOutcomes(made, bodies) == IF made THEN DOMAIN Outcomes(bodies) ELSE {1}

NextPanel ==
    /\ resp.op = "none"
    /\ \E pregunta \in {PreguntaDestino, PreguntaLibre},
          env \in {EnvAll, EnvNoProviders, EnvAbroad},
          llm \in LlmOutcomes :
          LET payload == [pregunta |-> pregunta, session_id |-> None]
              destino == PlanDestino(conversation_store, payload)
          IN  \E wx \in DrawnOutcomes(WeatherCallMade(env, destino), WeatherBodies),
                 ph \in DrawnOutcomes(PhotoCallMade(env, destino), PhotoBodies) :
                 LET weather == get_weather_data(env, destino, Outcomes(WeatherBodies)[wx])
                     country_code == PlanCountry(weather)
                 IN  \E cc \in DrawnOutcomes(CurrencyCallMade(country_code),
                                             CurrencyBodies) :
                        LET currency_code ==
                                get_currency_code(env, country_code,
                                                  Outcomes(CurrencyBodies)[cc])
                        IN  \E fx \in DrawnOutcomes(RateCallMade(env, currency_code.v),
                                                    RateBodies) :
                               PlanTrip(payload, env,
                                        [wx |-> Outcomes(WeatherBodies)[wx],
                                         ph |-> Outcomes(PhotoBodies)[ph],
                                         cc |-> Outcomes(CurrencyBodies)[cc],
                                         fx |-> Outcomes(RateBodies)[fx],
                                         llm |-> llm],
                                        clock + 1)

SpecPanel == InitPanel /\ [][NextPanel]_vars

-----------------------------------------------------------------------------
(* extract_field on every text of a bounded length.                        *)

MaxLen == 5
Alphabet == {"D", ":", "|", " ", ".", "P"}
Texts == UNION {[1..n -> Alphabet] : n \in 0..MaxLen}

InitExtract ==
    /\ conversation_store = EmptyStore
    /\ favorites_store = EmptyStore
    /\ resp = NoResp
    /\ appended = EmptyStore
    /\ clock = 0
    /\ pdf = [pc |-> "idle", answers |-> <<>>, pages |-> 0, lines |-> <<>>]
    /\ \E text \in Texts, label \in {DestinoLabel, FechasLabel} :
          ex = [pc |-> "call", text |-> text, label |-> label, result |-> None]

ExtractField ==
    /\ ex.pc = "call"
    /\ ex' = [ex EXCEPT !.pc = "done", !.result = extract_field(ex.text, ex.label)]
    /\ UNCHANGED <<conversation_store, favorites_store, resp, appended, clock, pdf>>

SpecExtract == InitExtract /\ [][ExtractField]_vars

-----------------------------------------------------------------------------
(* The text flow of the itinerary over bounded histories.  An answer is    *)
(* given by the lengths of its words.                                      *)

MaxEntries == 2
MaxWords == 50
WordLengths == {30, 60}

Answers == {[i \in 1..n |-> w] : n \in 1..MaxWords, w \in WordLengths}

InitPdf ==
    /\ conversation_store = EmptyStore
    /\ favorites_store = EmptyStore
    /\ resp = NoResp
    /\ appended = EmptyStore
    /\ clock = 0
    /\ ex = [pc |-> "idle", text |-> <<>>, label |-> <<>>, result |-> None]
    /\ \E n \in 1..MaxEntries : \E answers \in [1..n -> Answers] :
          pdf = [pc |-> "request", answers |-> answers, pages |-> 0, lines |-> <<>>]

RenderText ==
    /\ pdf.pc = "request"
    /\ LET flow == TextFlow(pdf.answers)
       IN  pdf' = [pdf EXCEPT !.pc = "done", !.pages = flow.page,
                              !.lines = flow.lines]
    /\ UNCHANGED <<conversation_store, favorites_store, resp, appended, clock, ex>>

SpecPdf == InitPdf /\ [][RenderText]_vars

-----------------------------------------------------------------------------
(* Properties.                                                             *)

\* C1 (SpecHistory): every session's stored history has at most 10 entries
\* and is exactly the last min(n, 10) of the n entries appended for that
\* session, in the order they were appended.
C1_HistoryIsLastTen ==
    /\ DOMAIN conversation_store = DOMAIN appended
    /\ \A k \in DOMAIN conversation_store :
          LET h == conversation_store[k]
              n == Len(appended[k])
              m == IF n < 10 THEN n ELSE 10
          IN  /\ Len(h) = m
              /\ \A i \in 1..m : h[i] = appended[k][n - m + i]

\* Twelve entries were appended for one session and ten are stored.
C1_Witness ==
    \E k \in DOMAIN conversation_store :
        Len(appended[k]) = 12 /\ Len(conversation_store[k]) = 10

NoDuplicates(l) == \A i, j \in 1..Len(l) : l[i] = l[j] => i = j

\* C2 (SpecFavorites): after every request each session's favorites hold no
\* destination twice, a list only ever grows by one new destination at its
\* end (so first-insertion order is kept), and a POST /favorites of a
\* destination already in the list leaves the store as it was.
C2_FavoritesSetLike ==
    [][ /\ \A k \in DOMAIN favorites_store' :
              LET old == StoreGet(favorites_store, k, <<>>)
                  new == favorites_store'[k]
              IN  /\ NoDuplicates(new)
                  /\ \/ new = old
                     \/ /\ Len(new) = Len(old) + 1
                        /\ SubSeq(new, 1, Len(old)) = old
          /\ DOMAIN favorites_store \subseteq DOMAIN favorites_store'
          /\ (resp'.op = "save_favorite"
                /\ InList(StoreGet(favorites_store, Strip(resp'.req.session_id), <<>>),
                          Strip(resp'.req.destino)))
              => favorites_store' = favorites_store
      ]_vars

\* A destination was posted again to a list that holds it first of several.
C2_Witness ==
    /\ resp.op = "save_favorite"
    /\ resp.out.stored
    /\ Len(resp.out.favorites) >= 2
    /\ resp.out.favorites[1] = Strip(resp.req.destino)
    /\ favorites_store[resp.out.key] = resp.out.favorites

\* C3 (SpecExtract): extract_field returns the segment between the first
\* marker and the next "|" without its surrounding whitespace and trailing
\* periods and with nothing else lost, or absent when the marker does not
\* occur or nothing remains.
C3_ExtractFieldContract ==
    ex.pc = "done" => ex.result = ClaimedExtract(ex.text, ex.label)

Adapters == {"weather", "photos", "currency", "rate"}

\* C4 (SpecPanel): an adapter that made its outbound call never raises to
\* plan_trip, and returns an absent or empty result when the call failed.
C4_AdaptersNeverRaise ==
    resp.op = "plan" =>
        \A a \in Adapters :
            LET call == resp.out.trace[a]
            IN  call.outbound =>
                    /\ ~call.result.raised
                    /\ call.http \in FailureKinds => call.result.v = <<>>

WeatherRetrieved(out) ==
    /\ out.trace.weather.outbound
    /\ out.trace.weather.http = "ok"
    /\ out.weather_data # None

CurrencyDetermined(out) ==
    /\ out.trace.currency.outbound
    /\ out.trace.currency.http = "ok"
    /\ out.currency_code # None
    /\ \/ out.panel.currency[1].value.kind = "home"
       \/ out.trace.rate.outbound /\ out.trace.rate.http = "ok"

NoTemperatureNoSummary(out) ==
    /\ out.weather_data[1].temperature.t = "null"
    /\ out.weather_data[1].summary.v = <<>>

\* C5 as stated (SpecPanel): in a /plan response the weather section is
\* present only if weather data was retrieved and never with a placeholder
\* value, the time section only if an offset was retrieved, the currency
\* section only if a currency code and its rate were determined.
C5_NoPlaceholderSection ==
    (resp.op = "plan" /\ resp.out.status = 200) =>
        LET out == resp.out
        IN  /\ out.panel.weather # None =>
                  /\ WeatherRetrieved(out)
                  /\ ~NoTemperatureNoSummary(out)
                  /\ out.panel.weather[1].value.kind # "N/D"
            /\ out.panel.time # None =>
                  WeatherRetrieved(out) /\ out.timezone_offset.t = "num"
            /\ out.panel.currency # None => CurrencyDetermined(out)

\* C5 as amended (SpecPanel): in a /plan response the weather section is
\* present exactly when the weather provider's answer gave a snapshot, and
\* its value is the placeholder "N/D" exactly when that snapshot has neither
\* temperature nor summary; the time section is present exactly when the
\* snapshot has a UTC offset; the currency section is present only if a
\* currency code was retrieved and the rate (or the home-currency match)
\* was determined, and is omitted when no code was retrieved.
C5_SectionsFollowSnapshot ==
    (resp.op = "plan" /\ resp.out.status = 200) =>
        LET out == resp.out
        IN  /\ out.panel.weather # None <=> WeatherRetrieved(out)
            /\ out.panel.weather # None =>
                  (out.panel.weather[1].value.kind = "N/D"
                      <=> NoTemperatureNoSummary(out))
            /\ out.panel.time # None <=>
                  (WeatherRetrieved(out) /\ out.timezone_offset.t = "num")
            /\ out.panel.currency # None => CurrencyDetermined(out)
            /\ out.currency_code = None => out.panel.currency = None

\* A response whose weather section holds the placeholder, beside a time
\* section that is omitted.
C5_Witness ==
    /\ resp.op = "plan"
    /\ resp.out.status = 200
    /\ resp.out.panel.weather # None
    /\ resp.out.panel.weather[1].value.kind = "N/D"
    /\ resp.out.panel.time = None
    /\ resp.out.panel.currency = None

C7_PdfNotFoundIffNoHistory ==
    resp.op = "download_itinerary" =>
        LET history == StoreGet(conversation_store, resp.req.session_id, <<>>)
        IN  /\ resp.out.status = 404 <=> history = <<>>
            /\ history # <<>> => resp.out.document

\* C8 (SpecPanel): the fotos of a /plan response are at most 3.
C8_AtMostThreePhotos ==
    resp.op = "plan" => Len(resp.out.fotos) <= 3

\* What one handler answers on given stores.
Handle(op, req, store, favorites, now) ==
    CASE op = "plan" -> plan_trip(store, favorites, req.payload, req.env, req.io, now)
      [] op = "save_favorite" -> save_favorite(favorites, req)
      [] op = "list_favorites" -> list_favorites(favorites, req)
      [] op = "download_itinerary" ->
            download_itinerary(store, req.session_id, req.env, req.ph)

Only(store, key) == [k \in DOMAIN store \cap {key} |-> store[k]]
Others(store, key) == [k \in DOMAIN store \ {key} |-> store[k]]

\* C9 (Spec): in every order of requests, a request leaves the history and
\* the favorites of every session but its own as they were, and its answer
\* and what it stores for its own session are what the handler yields on
\* stores holding that session alone.  The session of a request is the key
\* its handler derives from the session id.
C9_SessionIsolation ==
    [][ IF resp' = resp
        THEN /\ conversation_store' = conversation_store
             /\ favorites_store' = favorites_store
        ELSE LET key == resp'.out.key
                 solo == Handle(resp'.op, resp'.req, Only(conversation_store, key),
                                Only(favorites_store, key), clock)
             IN  /\ Others(conversation_store', key) = Others(conversation_store, key)
                 /\ Others(favorites_store', key) = Others(favorites_store, key)
                 /\ resp'.out.status = solo.status
                 /\ resp'.op \in {"plan", "save_favorite", "list_favorites"} =>
                       resp'.out.favorites = solo.favorites
                 /\ resp'.op = "plan" => resp'.out.history = solo.history
                 /\ Only(conversation_store', key) =
                       IF resp'.op = "plan" /\ solo.stored
                       THEN [k \in {key} |-> solo.history]
                       ELSE Only(conversation_store, key)
                 /\ Only(favorites_store', key) =
                       IF resp'.op = "save_favorite" /\ solo.stored
                       THEN [k \in {key} |-> solo.favorites]
                       ELSE Only(favorites_store, key)
      ]_vars

\* A /plan request was answered for one session while another session has a
\* history and favorites of its own.
C9_Witness ==
    /\ resp.op = "plan"
    /\ resp.out.status = 200
    /\ resp.out.key = SessionS
    /\ Anon \in DOMAIN conversation_store
    /\ Anon \in DOMAIN favorites_store

\* C10 (SpecPdf): no text line is emitted while the cursor is below the
\* bottom margin: the page is broken first.
C10_PageBreakBeforeNextLine ==
    pdf.pc = "done" =>
        \A i \in 1..Len(pdf.lines) : pdf.lines[i].y >= 80 * 10

====
